---- MODULE Spec2Model ----
(***************************************************************************)
(* Model of pkg/cmd/pr/list/http.go: fetchPullRequests, the paginated     *)
(* fetch / dedup / local-filter loop of `gh pr list`.                      *)
(*                                                                         *)
(* One invocation of fetchPullRequests is a process whose position is pc: *)
(*   "request"  about to call r.Request                    (line 43)       *)
(*   "nodes"    inside `for _, pr := range prData.Nodes`    (lines 49-70)  *)
(*   "finalize" after the loop, before `res.TotalCount -=`  (line 88)      *)
(*   "done"     returned                                    (45 or 89)     *)
(* listPullRequests hands that return to its caller (line 200).  Under     *)
(* SpecSearch the caller is searchPullRequests (lines 270-272), which goes *)
(* on to "returned", or to "panic" when it dereferences a nil result.      *)
(* The requester (Page Source) is the environment: every call returns     *)
(* either an error or an arbitrary page.  fetchPullRequests reads          *)
(* prData.Nodes only through the range loop, one record at a time, so the *)
(* page is kept as its length and the record the loop is at (pr); the     *)
(* requester's choice of Nodes[i+1] is drawn when the loop moves to it.    *)
(***************************************************************************)
EXTENDS Integers, Sequences, FiniteSets, TLC

\* ---------------------------------------------------------------- bounds
MaxLimit   == 2     \* limits 0..MaxLimit are tried
MaxPageLen == 2     \* records per page returned by the requester
MaxCalls   == 2     \* requester calls per invocation
MaxBackend == 3     \* records of a consistent backend

\* ------------------------------------------------------ program constants
MaxPageSize == 100  \* pageLimit := 100
SearchCap   == 1000 \* res.SearchCapped = limit > 1000

Nil == "nil"
\* a nil *api.PullRequestAndTotalCount
NilResult == [isNil |-> TRUE]

\* pr.Number is a Go int: positive numbers, the zero value, and a negative.
Keys == {-1, 0, 1, 2}
\* pr.AutoMergeRequest is a pointer: nil or set.
AutoMergeRequests == {Nil, "set"}
\* autoMergeStatus *bool: nil, or pointing at true / false.
AutoMergeStatuses == {Nil, "true", "false"}
Limits == 0..MaxLimit
\* the same, and one limit above the maximum page size
LargeLimits == Limits \cup {MaxPageSize + 1}
Totals == {5, 6}
\* EndCursor is opaque to fetchPullRequests, which only hands it back: the
\* page answered to the k-th call carries the cursor that names k.
Cursor(k) == ToString(k)
Errors == {"e1", "e2"}

VARIABLES
    limit,            \* parameter
    autoMergeStatus,  \* parameter
    pageLimit,        \* local
    endCursor,        \* local, Nil or a cursor
    res,              \* local api.PullRequestAndTotalCount
    check,            \* local map[int]struct{}, as its key set
    removed,          \* local
    prData,           \* page returned by the last successful r.Request
    err,              \* error returned by the last r.Request, Nil if none
    i,                \* position of the range loop in prData.Nodes
    pr,               \* prData.Nodes[i], the record the range loop is at
    pc,               \* position of the invocation
    backend,          \* the requester: arbitrary, or a fixed set of records
    two,              \* two concurrent invocations (SpecTwo)
    ret,              \* returned (result, error), Nil before return
    calls,            \* history: log of the r.Request calls issued
    seen,             \* history: Numbers of the records the loop has passed
    nFiltered         \* history: records processed as new that fail the filter

vars == <<limit, autoMergeStatus, pageLimit, endCursor, res, check, removed,
          prData, err, i, pr, pc, backend, two, ret, calls, seen, nFiltered>>

\* ------------------------------------------------------------ pure code
min(a, b) == IF a < b THEN a ELSE b

\* variant: the page size is always the maximum
InitialPageLimitMax(lim, ams) == MaxPageSize

InitialPageLimit(lim, ams) ==
    IF ams = Nil THEN min(MaxPageSize, lim) ELSE MaxPageSize

InitialResult ==
    [PullRequests |-> <<>>, TotalCount |-> -1, TotalCountIsUpperBound |-> FALSE]

\* variant: the `pr.Number > 0` guard is missing
IsDuplicateNoGuard(chk, p) == p.Number \in chk

\* variant: the dedup test is missing
IsDuplicateNever(chk, p) == FALSE

\* line 50: `_, exists := check[pr.Number]; exists && pr.Number > 0`
IsDuplicate(chk, p) == p.Number \in chk /\ p.Number > 0

\* variant: the `autoMergeStatus != nil` test is missing
IsFilteredOutNoNilCheck(ams, p) ==
    (ams = "true") = (p.AutoMergeRequest = Nil)

\* line 55: autoMergeStatus != nil && (*autoMergeStatus == (pr.AutoMergeRequest == nil))
IsFilteredOut(ams, p) ==
    ams # Nil /\ ((ams = "true") = (p.AutoMergeRequest = Nil))

\* variant: line 60 is missing
MarkRemovedNoFlag(r) == r

\* lines 59-60
MarkRemoved(r) == [r EXCEPT !.TotalCountIsUpperBound = TRUE]

\* variant: the `len(res.PullRequests) < limit` test is missing
AppendAlways(r, p, lim) == [r EXCEPT !.PullRequests = Append(@, p)]

\* variant: the record is put in front
PrependIfRoom(r, p, lim) ==
    IF Len(r.PullRequests) < lim
    THEN [r EXCEPT !.PullRequests = <<p>> \o @]
    ELSE r

\* lines 64-66
AppendIfRoom(r, p, lim) ==
    IF Len(r.PullRequests) < lim
    THEN [r EXCEPT !.PullRequests = Append(@, p)]
    ELSE r

\* variant: the `autoMergeStatus == nil` test is missing
StopAtLimitAlways(r, lim, ams) == Len(r.PullRequests) = lim

\* line 67
StopAtLimit(r, lim, ams) == Len(r.PullRequests) = lim /\ ams = Nil

\* variant: the `len(res.PullRequests) == limit` test of line 77 never holds
AtLimitNever(r, lim) == FALSE

\* line 77
AtLimit(r, lim) == Len(r.PullRequests) = lim

\* variant: the cursor is not advanced
NextCursorStale(cur, page) == cur

\* line 80
NextCursor(cur, page) == page.PageInfo.EndCursor

\* line 75
MarkExact(r) == [r EXCEPT !.TotalCountIsUpperBound = FALSE]

\* variant: the page size is never shrunk
NextPageLimitNoShrink(pl, lim, r, ams) == pl

\* variant: one slot too few is left for the next page
NextPageLimitOffByOne(pl, lim, r, ams) ==
    IF ams = Nil THEN min(pl, lim - Len(r.PullRequests) - 1) ELSE pl

\* lines 81-84
NextPageLimit(pl, lim, r, ams) ==
    IF ams = Nil THEN min(pl, lim - Len(r.PullRequests)) ELSE pl

\* variant: the removed records are not subtracted
FinalResultNoAdjust(r, rm) == r

\* line 88
FinalResult(r, rm) == [r EXCEPT !.TotalCount = @ - rm]

\* variant: the partial result is returned with the error
ErrorReturnPartial(r, e) == [res |-> r, err |-> e]

\* line 45
ErrorReturn(r, e) == [res |-> NilResult, err |-> e]

\* line 89
SuccessReturn(r) == [res |-> r, err |-> Nil]

\* ------------------------------------------------------------- requester
\* api.PullRequest, reduced to the two fields fetchPullRequests reads
Records == [Number : Keys, AutoMergeRequest : AutoMergeRequests]
\* value of pr outside the range loop
NoRecord == [Number |-> 0, AutoMergeRequest |-> Nil]

\* All pages the requester may answer the k-th call with (Nodes as its
\* length).
Pages(k) ==
    [Len : 0..MaxPageLen,
     PageInfo : [HasNextPage : BOOLEAN, EndCursor : {Cursor(k)}],
     TotalCount : Totals]

\* The requester answers arbitrarily (Spec), or serves a fixed set of records
\* with the Numbers 1..n, amr[k] being the AutoMergeRequest of record k
\* (SpecConsistent): every page reports the total n, a record may be served
\* again, and a page reports has-more = false only if every record has been
\* served by the end of it.
NoBackend == [on |-> FALSE, amr |-> <<>>]
Backends ==
    {[on |-> TRUE, amr |-> a] :
        a \in UNION {[1..n -> AutoMergeRequests] : n \in 0..MaxBackend}}
Unserved(b, sn) == DOMAIN b.amr \ sn

\* the pages requester b may answer the k-th call with, sn being the Numbers
\* served so far
Answers(b, k, sn) ==
    IF ~b.on THEN Pages(k)
    ELSE {p \in [Len : 0..MaxPageLen,
                 PageInfo : [HasNextPage : BOOLEAN, EndCursor : {Cursor(k)}],
                 TotalCount : {Len(b.amr)}] :
            /\ p.Len > 0 => Len(b.amr) > 0
            /\ ~p.PageInfo.HasNextPage => p.Len >= Cardinality(Unserved(b, sn))}

\* the records requester b may have put at Nodes[j] of page
NodesAt(b, page, j, sn) ==
    IF ~b.on THEN Records
    ELSE {[Number |-> k, AutoMergeRequest |-> b.amr[k]] :
            k \in {h \in DOMAIN b.amr :
                      \/ page.PageInfo.HasNextPage
                      \/ Cardinality(Unserved(b, sn) \ {h}) <= page.Len - j}}

NoPage == [Len |-> 0,
           PageInfo |-> [HasNextPage |-> FALSE, EndCursor |-> Nil],
           TotalCount |-> 0]

\* ------------------------------------------------------------------ Init
\* value of two when a single invocation runs
NoTwo == <<>>

\* lines 31-39
Start ==
    /\ pageLimit = InitialPageLimit(limit, autoMergeStatus)
    /\ endCursor = Nil
    /\ res = InitialResult
    /\ check = {}
    /\ removed = 0
    /\ prData = NoPage
    /\ err = Nil
    /\ i = 0
    /\ pr = NoRecord
    /\ pc = "request"
    /\ ret = Nil
    /\ calls = <<>>
    /\ seen = {}
    /\ nFiltered = 0

\* an arbitrary requester
Init ==
    /\ limit \in Limits
    /\ autoMergeStatus \in AutoMergeStatuses
    /\ backend = NoBackend
    /\ two = NoTwo
    /\ Start

\* a consistent backend
InitConsistent ==
    /\ limit \in LargeLimits
    /\ autoMergeStatus \in AutoMergeStatuses
    /\ backend \in Backends
    /\ two = NoTwo
    /\ Start

\* --------------------------------------------------------------- actions
CallEntry == [limit |-> pageLimit, endCursor |-> endCursor,
              have |-> Len(res.PullRequests)]

\* the range loop is at position j of page: the requester's Nodes[j], if any
RangeAt(page, j) ==
    /\ i' = j
    /\ IF j <= page.Len
       THEN pr' \in NodesAt(backend, page, j, seen')
       ELSE pr' = NoRecord

\* lines 43-47, r.Request succeeds
RequestOk ==
    /\ pc = "request"
    /\ Len(calls) < MaxCalls
    /\ seen' = seen
    /\ \E page \in Answers(backend, Len(calls) + 1, seen) :
        /\ prData' = page
        /\ res' = [res EXCEPT !.TotalCount = page.TotalCount]
        /\ RangeAt(page, 1)
    /\ err' = Nil
    /\ calls' = Append(calls, CallEntry)
    /\ pc' = "nodes"
    /\ UNCHANGED <<limit, autoMergeStatus, backend, two, pageLimit, endCursor,
                   check, removed, ret, nFiltered>>

\* lines 43-46, r.Request fails
RequestErr ==
    /\ pc = "request"
    /\ Len(calls) < MaxCalls
    /\ \E e \in Errors :
        /\ err' = e
        /\ ret' = ErrorReturn(res, e)
    /\ calls' = Append(calls, CallEntry)
    /\ pc' = "done"
    /\ UNCHANGED <<limit, autoMergeStatus, backend, two, pageLimit, endCursor,
                   res, check, removed, prData, i, pr, seen, nFiltered>>

InNodes == pc = "nodes" /\ i <= prData.Len
AtEndOfNodes == pc = "nodes" /\ i > prData.Len

\* history: the record is not a later occurrence of a positive Number, and
\* the filter is on and does not accept it
CountsAsFiltered(p) ==
    /\ ~(p.Number > 0 /\ p.Number \in seen)
    /\ autoMergeStatus # Nil
    /\ (autoMergeStatus = "true") = (p.AutoMergeRequest = Nil)

Tally ==
    /\ nFiltered' = nFiltered + (IF CountsAsFiltered(pr) THEN 1 ELSE 0)
    /\ seen' = seen \cup {pr.Number}

\* lines 50-52
SkipDuplicate ==
    /\ InNodes
    /\ IsDuplicate(check, pr)
    /\ Tally
    /\ RangeAt(prData, i + 1)
    /\ UNCHANGED <<limit, autoMergeStatus, backend, two, pageLimit, endCursor,
                   res, check, removed, prData, err, pc, ret, calls>>

\* lines 53-62
FilterOut ==
    /\ InNodes
    /\ ~IsDuplicate(check, pr)
    /\ check' = check \cup {pr.Number}
    /\ IsFilteredOut(autoMergeStatus, pr)
    /\ removed' = removed + 1
    /\ res' = MarkRemoved(res)
    /\ Tally
    /\ RangeAt(prData, i + 1)
    /\ UNCHANGED <<limit, autoMergeStatus, backend, two, pageLimit, endCursor,
                   prData, err, pc, ret, calls>>

\* lines 53, 64-69
Keep ==
    /\ InNodes
    /\ ~IsDuplicate(check, pr)
    /\ check' = check \cup {pr.Number}
    /\ ~IsFilteredOut(autoMergeStatus, pr)
    /\ res' = AppendIfRoom(res, pr, limit)
    /\ Tally
    /\ IF StopAtLimit(res', limit, autoMergeStatus)
       THEN pc' = "finalize" /\ i' = i /\ pr' = pr
       ELSE pc' = pc /\ RangeAt(prData, i + 1)
    /\ UNCHANGED <<limit, autoMergeStatus, backend, two, pageLimit, endCursor,
                   removed, prData, err, ret, calls>>

\* lines 72-76
PagesExhausted ==
    /\ AtEndOfNodes
    /\ ~prData.PageInfo.HasNextPage
    /\ res' = MarkExact(res)
    /\ pc' = "finalize"
    /\ UNCHANGED <<limit, autoMergeStatus, backend, two, pageLimit, endCursor,
                   check, removed, prData, err, i, pr, ret, calls, seen,
                   nFiltered>>

\* lines 77-78
LimitReached ==
    /\ AtEndOfNodes
    /\ prData.PageInfo.HasNextPage
    /\ AtLimit(res, limit)
    /\ pc' = "finalize"
    /\ UNCHANGED <<limit, autoMergeStatus, backend, two, pageLimit, endCursor,
                   res, check, removed, prData, err, i, pr, ret, calls, seen,
                   nFiltered>>

\* lines 79-85
NextPage ==
    /\ AtEndOfNodes
    /\ prData.PageInfo.HasNextPage
    /\ ~AtLimit(res, limit)
    /\ endCursor' = NextCursor(endCursor, prData)
    /\ pageLimit' = NextPageLimit(pageLimit, limit, res, autoMergeStatus)
    /\ pc' = "request"
    /\ UNCHANGED <<limit, autoMergeStatus, backend, two, res, check, removed,
                   prData, err, i, pr, ret, calls, seen, nFiltered>>

\* lines 88-89
Finalize ==
    /\ pc = "finalize"
    /\ res' = FinalResult(res, removed)
    /\ ret' = SuccessReturn(res')
    /\ pc' = "done"
    /\ UNCHANGED <<limit, autoMergeStatus, backend, two, pageLimit, endCursor,
                   check, removed, prData, err, i, pr, calls, seen,
                   nFiltered>>

Next ==
    \/ RequestOk
    \/ RequestErr
    \/ SkipDuplicate
    \/ FilterOut
    \/ Keep
    \/ PagesExhausted
    \/ LimitReached
    \/ NextPage
    \/ Finalize

Spec == Init /\ [][Next]_vars

SpecConsistent == InitConsistent /\ [][Next]_vars

\* line 271, on a non-nil res
SetSearchCapped(r, lim) ==
    [PullRequests |-> r.PullRequests, TotalCount |-> r.TotalCount,
     TotalCountIsUpperBound |-> r.TotalCountIsUpperBound,
     SearchCapped |-> lim > SearchCap]

\* lines 270-272, fetchPullRequests returned a result
SearchReturn ==
    /\ pc = "done"
    /\ ret.res # NilResult
    /\ ret' = [res |-> SetSearchCapped(ret.res, limit), err |-> ret.err]
    /\ pc' = "returned"
    /\ UNCHANGED <<limit, autoMergeStatus, backend, two, pageLimit, endCursor,
                   res, check, removed, prData, err, i, pr, calls, seen,
                   nFiltered>>

\* lines 270-271, fetchPullRequests returned nil: `res.SearchCapped = ...`
\* dereferences the nil pointer and the goroutine panics; nothing is returned
SearchPanic ==
    /\ pc = "done"
    /\ ret.res = NilResult
    /\ ret' = Nil
    /\ pc' = "panic"
    /\ UNCHANGED <<limit, autoMergeStatus, backend, two, pageLimit, endCursor,
                   res, check, removed, prData, err, i, pr, calls, seen,
                   nFiltered>>

NextSearch ==
    \/ Next
    \/ SearchReturn
    \/ SearchPanic

\* the request is routed to searchPullRequests (line 134)
SpecSearch == Init /\ [][NextSearch]_vars

\* ------------------------------------------------ two invocations at once
\* Two callers run fetchPullRequests at the same time, each with its own
\* requester; a step of one is a step of SpecTwo.  The locals of an
\* invocation are the fields of its record; the map made at line 38 is a
\* heap cell, store[CheckOwner(p)].  alone[p] is the same invocation run by
\* itself on the same answers, with a map of its own: it takes every step
\* that invocation p takes.
Procs == {1, 2}
TwoLimits == {1, 2}
TwoStatuses == {Nil, "true"}
TwoRecords == [Number : {0, 1}, AutoMergeRequest : AutoMergeRequests]
TwoAnswers(k) ==
    [page : [Len : {0, 1},
             PageInfo : [HasNextPage : BOOLEAN, EndCursor : {Cursor(k)}],
             TotalCount : {5}],
     err : {Nil}]
    \cup [page : {NoPage}, err : {"e1"}]
TwoCalls == 1..2

\* variant: the map is one package-level map
CheckOwnerShared(p) == 1

\* line 38: every invocation makes its own map
CheckOwner(p) == p

\* lines 31-39
InvStart(lim, ams) ==
    [limit |-> lim, autoMergeStatus |-> ams,
     pageLimit |-> InitialPageLimit(lim, ams), endCursor |-> Nil,
     res |-> InitialResult, removed |-> 0, prData |-> NoPage, i |-> 0,
     pc |-> "request", ret |-> Nil, ncalls |-> 0]

\* lines 43-47
InvRequest(st, ans) ==
    IF ans.err # Nil
    THEN [st EXCEPT !.ncalls = @ + 1, !.ret = ErrorReturn(st.res, ans.err),
                    !.pc = "done"]
    ELSE [st EXCEPT !.ncalls = @ + 1, !.prData = ans.page,
                    !.res.TotalCount = ans.page.TotalCount,
                    !.i = 1, !.pc = "nodes"]

\* lines 49-70, one pass of the range loop over record p
InvRecord(st, chk, p) ==
    IF IsDuplicate(chk, p)
    THEN [st |-> [st EXCEPT !.i = @ + 1], check |-> chk]
    ELSE IF IsFilteredOut(st.autoMergeStatus, p)
    THEN [st |-> [st EXCEPT !.removed = @ + 1, !.res = MarkRemoved(@),
                            !.i = @ + 1],
          check |-> chk \cup {p.Number}]
    ELSE LET r == AppendIfRoom(st.res, p, st.limit)
             stop == StopAtLimit(r, st.limit, st.autoMergeStatus)
         IN  [st |-> [st EXCEPT !.res = r,
                                !.pc = IF stop THEN "finalize" ELSE @,
                                !.i = IF stop THEN @ ELSE @ + 1],
              check |-> chk \cup {p.Number}]

\* lines 72-85
InvEndOfPage(st) ==
    IF ~st.prData.PageInfo.HasNextPage
    THEN [st EXCEPT !.res = MarkExact(@), !.pc = "finalize"]
    ELSE IF AtLimit(st.res, st.limit)
    THEN [st EXCEPT !.pc = "finalize"]
    ELSE [st EXCEPT !.endCursor = NextCursor(@, st.prData),
                    !.pageLimit = NextPageLimit(@, st.limit, st.res,
                                                st.autoMergeStatus),
                    !.pc = "request"]

\* lines 88-89
InvFinalize(st) ==
    LET r == FinalResult(st.res, st.removed)
    IN  [st EXCEPT !.res = r, !.ret = SuccessReturn(r), !.pc = "done"]

\* what does not belong to the two invocations
oneVars == <<limit, autoMergeStatus, backend, pageLimit, endCursor, res,
             check, removed, prData, err, i, pr, pc, ret, calls, seen,
             nFiltered>>

InitTwo ==
    /\ limit = 0
    /\ autoMergeStatus = Nil
    /\ backend = NoBackend
    /\ Start
    /\ \E l \in [Procs -> TwoLimits], a \in [Procs -> TwoStatuses] :
        two = [inv |-> [p \in Procs |-> InvStart(l[p], a[p])],
               store |-> [p \in Procs |-> {}],
               alone |-> [p \in Procs |->
                            [st |-> InvStart(l[p], a[p]), check |-> {}]]]

TwoRequest(p) ==
    /\ two.inv[p].pc = "request"
    /\ two.inv[p].ncalls + 1 \in TwoCalls
    /\ \E ans \in TwoAnswers(two.inv[p].ncalls + 1) :
        two' = [two EXCEPT !.inv[p] = InvRequest(@, ans),
                           !.alone[p].st = InvRequest(@, ans)]
    /\ UNCHANGED oneVars

TwoRecord(p) ==
    /\ two.inv[p].pc = "nodes"
    /\ two.inv[p].i <= two.inv[p].prData.Len
    /\ \E rec \in TwoRecords :
        LET o == CheckOwner(p)
            n == InvRecord(two.inv[p], two.store[o], rec)
            a == InvRecord(two.alone[p].st, two.alone[p].check, rec)
        IN  two' = [two EXCEPT !.inv[p] = n.st, !.store[o] = n.check,
                               !.alone[p] = a]
    /\ UNCHANGED oneVars

TwoEndOfPage(p) ==
    /\ two.inv[p].pc = "nodes"
    /\ two.inv[p].i > two.inv[p].prData.Len
    /\ two' = [two EXCEPT !.inv[p] = InvEndOfPage(@),
                          !.alone[p].st = InvEndOfPage(@)]
    /\ UNCHANGED oneVars

TwoFinalize(p) ==
    /\ two.inv[p].pc = "finalize"
    /\ two' = [two EXCEPT !.inv[p] = InvFinalize(@),
                          !.alone[p].st = InvFinalize(@)]
    /\ UNCHANGED oneVars

NextTwo ==
    \E p \in Procs :
        \/ TwoRequest(p)
        \/ TwoRecord(p)
        \/ TwoEndOfPage(p)
        \/ TwoFinalize(p)

SpecTwo == InitTwo /\ [][NextTwo]_vars

\* the statements of fetchPullRequests run one after the other to its return
FairSpecConsistent == SpecConsistent /\ WF_vars(Next)

TypeOK ==
    /\ limit \in LargeLimits
    /\ pc \in {"request", "nodes", "finalize", "done", "returned", "panic"}
    /\ removed \in Nat
    /\ check \subseteq Keys \cup DOMAIN backend.amr
    /\ pr.Number \in Keys \cup DOMAIN backend.amr
    /\ pr.AutoMergeRequest \in AutoMergeRequests
    /\ prData.Len \in 0..MaxPageLen

\* ---------------------------------------------------------------- claims
out == res.PullRequests
Succeeded == pc = "done" /\ ret.err = Nil
FailsFilter(p) ==
    /\ autoMergeStatus # Nil
    /\ (autoMergeStatus = "true") = (p.AutoMergeRequest = Nil)
\* the record is a later occurrence of its Number
SeenEarlier(p) == p.Number \in seen

\* C1 (as stated): once a record has been removed by the predicate, the
\* upper-bound flag is true for the rest of the invocation and in the
\* returned result.
C1_FlagStaysTrue ==
    nFiltered > 0 =>
        IF pc = "done"
        THEN ret.res # NilResult => ret.res.TotalCountIsUpperBound
        ELSE res.TotalCountIsUpperBound

\* C1 (amended): once a record has been removed by the predicate, the flag
\* is true until the end of a page that reports has-more = false is reached;
\* there it is reset to false, so the returned flag equals the has-more of
\* the last page fetched.
C1_FlagUntilExhausted ==
    nFiltered > 0 =>
        CASE pc \in {"request", "nodes"} -> res.TotalCountIsUpperBound
          [] pc = "finalize" ->
                res.TotalCountIsUpperBound = prData.PageInfo.HasNextPage
          [] pc = "done" ->
                ret.res # NilResult =>
                    ret.res.TotalCountIsUpperBound = prData.PageInfo.HasNextPage

\* records were removed, page 1 kept none, page 2 supplied the output and
\* reported has-more = false: the returned flag is false
C1_Witness ==
    /\ Succeeded
    /\ Len(calls) = 2
    /\ calls[2].have = 0
    /\ nFiltered > 0
    /\ Len(ret.res.PullRequests) > 0
    /\ ~prData.PageInfo.HasNextPage
    /\ ~ret.res.TotalCountIsUpperBound
    /\ ret.res.TotalCount = prData.TotalCount - nFiltered

\* C2: the list of records never has more than limit entries, during the
\* invocation and in the returned result.
C2_LimitInvariant ==
    /\ Len(res.PullRequests) <= limit
    /\ (pc = "done" /\ ret.res # NilResult) =>
            Len(ret.res.PullRequests) <= limit

\* the loop has passed two records of page 1, both with Number 0 and both
\* accepted by the predicate, and one was kept
C2_Witness ==
    /\ pc = "nodes"
    /\ Len(calls) = 1
    /\ i = 3
    /\ limit = 1
    /\ autoMergeStatus # Nil
    /\ seen = {0}
    /\ nFiltered = 0
    /\ Len(out) = 1

\* C3 (as stated): no two records of the output have the same non-unset
\* (non-zero) Number.
C3_NoDuplicateNonUnset ==
    \A a, b \in 1..Len(out) :
        (a # b /\ out[a].Number # 0) => out[a].Number # out[b].Number

\* C3 (amended): no two records of the output have the same positive Number.
C3_NoDuplicatePositive ==
    \A a, b \in 1..Len(out) :
        (a # b /\ out[a].Number > 0) => out[a].Number # out[b].Number

\* the loop has passed two records of page 1, both with Number 1; without a
\* predicate and with room for both, one is in the output
C3_Witness ==
    /\ pc = "nodes"
    /\ Len(calls) = 1
    /\ i = 3
    /\ limit = 2
    /\ autoMergeStatus = Nil
    /\ seen = {1}
    /\ Len(out) = 1

\* C4: on a successful return the total count is the last page's total
\* minus the number of records removed by the predicate (duplicates skipped
\* and records dropped at the limit are not counted).
C4_ReturnedCount ==
    Succeeded => ret.res.TotalCount = prData.TotalCount - nFiltered

\* of the records of the only page, some were removed and some were
\* neither removed nor kept
C4_Witness ==
    /\ Succeeded
    /\ Len(calls) = 1
    /\ nFiltered > 0
    /\ i - 1 > nFiltered + Len(ret.res.PullRequests)

\* C5: when r.Request fails, exactly that error is returned with a nil
\* result, and no further r.Request call can be issued.
C5_ErrorPropagation ==
    err # Nil =>
        /\ pc = "done"
        /\ ret.err = err
        /\ ret.res = NilResult
        /\ ~ENABLED (RequestOk \/ RequestErr)

\* the second call failed after the first page yielded records
C5_Witness ==
    /\ err # Nil
    /\ Len(calls) = 2
    /\ Len(res.PullRequests) > 0

\* C6: without a predicate every successful return has the flag false and
\* the total of the last page fetched.
C6_ExactCount ==
    (autoMergeStatus = Nil /\ Succeeded) =>
        /\ ~ret.res.TotalCountIsUpperBound
        /\ ret.res.TotalCount = prData.TotalCount

\* returned at the limit, in the middle of a second page with more to come
C6_Witness ==
    /\ autoMergeStatus = Nil
    /\ Succeeded
    /\ Len(calls) = 2
    /\ prData.PageInfo.HasNextPage
    /\ i < prData.Len
    /\ prData.TotalCount = 5

\* the output only changes by appending the record the loop is at
AppendOnly ==
    \/ out' = out
    \/ InNodes /\ out' = Append(out, pr)

\* C7 (as stated): the output only grows by appending the records in the
\* order they are received, and a record with a non-unset Number is appended
\* only at the first occurrence of that Number.
C7_FirstSeenOrderNonUnset ==
    [][ /\ AppendOnly
        /\ (out' # out /\ pr.Number # 0) => ~SeenEarlier(pr)
      ]_vars

\* C7 (amended): the same, for records with a positive Number.
C7_FirstSeenOrderPositive ==
    [][ /\ AppendOnly
        /\ (out' # out /\ pr.Number > 0) => ~SeenEarlier(pr)
      ]_vars

\* one record kept from page 1; of the two records of page 2 the loop has
\* passed, one was kept, behind it
C7_Witness ==
    /\ pc = "nodes"
    /\ Len(calls) = 2
    /\ calls[2].have = 1
    /\ i = 3
    /\ Len(out) = 2
    /\ out[1].Number = 2
    /\ out[2].Number = 1

\* C8: without a predicate, every request after the first asks for no more
\* than the previous one and no more than limit minus the output length.
C8_PageSizeShrinks ==
    autoMergeStatus = Nil =>
        \A k \in 2..Len(calls) :
            /\ calls[k].limit <= calls[k-1].limit
            /\ calls[k].limit <= limit - calls[k].have

\* a second request, smaller than the first
C8_Witness ==
    /\ autoMergeStatus = Nil
    /\ Len(calls) = 2
    /\ calls[2].limit < calls[1].limit
    /\ calls[2].have > 0

Untouched == res' = res /\ removed' = removed /\ check' = check

\* C9 (as stated): a record whose non-unset Number was seen earlier is
\* skipped: output, counter, flag and dedup set are unchanged.
C9_DuplicateNonUnsetSkipped ==
    [][ (InNodes /\ pr.Number # 0 /\ SeenEarlier(pr)) => Untouched ]_vars

\* C9 (amended): the same, for a record with a positive Number.
C9_DuplicatePositiveSkipped ==
    [][ (InNodes /\ pr.Number > 0 /\ SeenEarlier(pr)) => Untouched ]_vars

\* the loop has passed two records of page 1, both with Number 1: the first
\* was removed by the predicate, the second changed nothing although the
\* output has room
C9_Witness ==
    /\ pc = "nodes"
    /\ Len(calls) = 1
    /\ i = 3
    /\ autoMergeStatus # Nil
    /\ seen = {1}
    /\ removed = 1
    /\ Len(out) = 0
    /\ limit > 0

\* C10: a record whose Number is 0 is always processed as a new record:
\* counted as removed if it fails the predicate, else appended if the output
\* is below the limit.
C10_UnsetNeverDeduplicated ==
    [][ (InNodes /\ pr.Number = 0) =>
            IF FailsFilter(pr)
            THEN /\ removed' = removed + 1
                 /\ res'.TotalCountIsUpperBound
                 /\ out' = out
            ELSE /\ removed' = removed
                 /\ out' = IF Len(out) < limit THEN Append(out, pr) ELSE out
      ]_vars

\* two records with Number 0, one from page 1 and one from page 2, are both
\* in the output, and a third one was removed
C10_Witness ==
    /\ Len(calls) = 2
    /\ calls[2].have = 1
    /\ Len(out) = 2
    /\ seen = {0}
    /\ removed = 1

\* C11: the first call carries no cursor, every later call carries the
\* EndCursor of the page answered to the call before it, and is issued only
\* when the range loop is past every record of that page.
C11_CursorChain ==
    [][ calls' # calls =>
            /\ calls'[Len(calls')].endCursor =
                    (IF calls = <<>> THEN Nil ELSE prData.PageInfo.EndCursor)
            /\ calls # <<>> => (pc = "request" /\ i > prData.Len)
      ]_vars

\* a second call, with the cursor of page 1, after page 1 gave a record
C11_Witness ==
    /\ Len(calls) = 2
    /\ calls[1].endCursor = Nil
    /\ calls[2].endCursor = Cursor(1)
    /\ calls[2].have = 1
    /\ pc = "nodes"

C13_PagingDecision ==
    [][ /\ AtEndOfNodes =>
              ((pc' = "request") <=>
                    (prData.PageInfo.HasNextPage /\ Len(out) < limit))
        /\ (calls' # calls /\ calls # <<>>) =>
              (prData.PageInfo.HasNextPage /\ Len(out) < limit)
        /\ (pc' = "done" /\ ret'.err = Nil
                /\ Len(ret'.res.PullRequests) < limit) =>
              ~prData'.PageInfo.HasNextPage
      ]_vars

\* a further page is being requested after a full page that left room
C13_Witness ==
    /\ pc = "request"
    /\ Len(calls) = 1
    /\ prData.Len = 2
    /\ Len(out) = 1
    /\ limit = 2

\* the record is not a later occurrence of a positive Number
IsNew(p) == ~(p.Number > 0 /\ p.Number \in seen)

\* C14: with a predicate the range loop never stops inside a page: at the
\* limit it still skips duplicates and still counts a failing record as
\* removed and sets the flag; without a predicate it stops at the record
\* that fills the output.
C14_LimitInsidePage ==
    [][ /\ (InNodes /\ autoMergeStatus # Nil) =>
              (pc' = "nodes" /\ i' = i + 1)
        /\ (InNodes /\ autoMergeStatus # Nil /\ Len(out) = limit) =>
              /\ (IsNew(pr) /\ FailsFilter(pr)) =>
                    (removed' = removed + 1 /\ res'.TotalCountIsUpperBound)
              /\ ~IsNew(pr) => Untouched
              /\ out' = out
        /\ (InNodes /\ autoMergeStatus = Nil /\ out' # out
                /\ Len(out') = limit) =>
              pc' = "finalize"
      ]_vars

\* with a predicate, the first record of the page filled the output and the
\* loop is at the second one, which fails the predicate
C14_Witness ==
    /\ InNodes
    /\ autoMergeStatus # Nil
    /\ Len(calls) = 1
    /\ i = 2
    /\ limit = 1
    /\ Len(out) = 1
    /\ FailsFilter(pr)
    /\ IsNew(pr)

\* records of the backend that the predicate accepts
Matching ==
    Cardinality({k \in DOMAIN backend.amr :
                    ~FailsFilter([Number |-> k,
                                  AutoMergeRequest |-> backend.amr[k]])})

\* C15: against a consistent backend, a return after a page with has-more =
\* false has a total count equal to the number of records of the backend
\* that satisfy the predicate.
C15_ExactWhenExhausted ==
    (Succeeded /\ ~prData.PageInfo.HasNextPage) =>
        ret.res.TotalCount = Matching

\* two records, one accepted and one not; page 1 gave the accepted one and
\* page 2 has two records, so one record was served twice
C15_Witness ==
    /\ Succeeded
    /\ ~prData.PageInfo.HasNextPage
    /\ Len(backend.amr) = 2
    /\ Len(calls) = 2
    /\ calls[2].have = 1
    /\ prData.Len = 2
    /\ nFiltered = 1
    /\ Matching = 1

\* C16: when r.Request fails on the search route, searchPullRequests
\* returns that error with a nil result, and ends in no other way.
C16_SearchErrorReturned ==
    (pc \in {"returned", "panic"} /\ err # Nil) =>
        /\ pc = "returned"
        /\ ret.err = err
        /\ ret.res = NilResult

\* the first request of a search-routed invocation failed and the invocation
\* ended at line 271 without returning
C16_Witness ==
    /\ pc = "panic"
    /\ err # Nil
    /\ Len(calls) = 1

\* C17: without a predicate the first request has page size min(100,
\* limit); with a predicate every request has page size 100.
C17_PageSizeStrategy ==
    /\ (autoMergeStatus = Nil /\ calls # <<>>) =>
            calls[1].limit = (IF limit < 100 THEN limit ELSE 100)
    /\ autoMergeStatus # Nil =>
            \A k \in 1..Len(calls) : calls[k].limit = 100

\* with a predicate, limit 2 and one record in the output, the second
\* request still asks for 100
C17_Witness ==
    /\ autoMergeStatus # Nil
    /\ limit = 2
    /\ Len(calls) = 2
    /\ calls[2].have = 1
    /\ calls[2].limit = 100

Stopping ==
    /\ calls # <<>>
    /\ \/ err # Nil
       \/ ~prData.PageInfo.HasNextPage
       \/ Len(out) = limit

\* C18: once a call has failed, or a page has reported has-more = false, or
\* the output has reached the limit, no further call is issued and the
\* invocation returns.
C18_Terminates ==
    /\ [][Stopping => calls' = calls]_vars
    /\ Stopping ~> pc = "done"

\* returned after the second page reported has-more = false
C18_Witness ==
    /\ Succeeded
    /\ Len(calls) = 2
    /\ ~prData.PageInfo.HasNextPage
    /\ Len(ret.res.PullRequests) < limit

\* C19: for a limit of at least 1, every page size passed to r.Request is
\* between 1 and 100.
C19_PageSizeInRange ==
    limit >= 1 =>
        \A k \in 1..Len(calls) : calls[k].limit >= 1 /\ calls[k].limit <= 100

\* without a predicate, the second request is shrunk to 1
C19_Witness ==
    /\ autoMergeStatus = Nil
    /\ limit = 2
    /\ Len(calls) = 2
    /\ calls[2].have = 1
    /\ calls[2].limit = 1

\* C20: against a consistent backend and for a limit of at least 1, a return
\* with the upper-bound flag false has a total count equal to the number of
\* records of the backend that satisfy the predicate.
C20_FlagFalseMeansExact ==
    (Succeeded /\ limit >= 1 /\ ~ret.res.TotalCountIsUpperBound) =>
        ret.res.TotalCount = Matching

\* limit 1 with a predicate: page 1 gave one accepted record and reported
\* more pages; the rejected record was never fetched, the flag is false and
\* the count is the whole set
C20_Witness ==
    /\ Succeeded
    /\ limit = 1
    /\ autoMergeStatus # Nil
    /\ Len(calls) = 1
    /\ prData.PageInfo.HasNextPage
    /\ ~ret.res.TotalCountIsUpperBound
    /\ nFiltered = 0
    /\ ret.res.TotalCount = Matching + 1
====
